---- MODULE Spec2Model ----
(***************************************************************************)
(* Model of src/etf_performance_analyzer.py (class ETFPerformanceAnalyzer).*)
(*                                                                         *)
(* Dates are proleptic Gregorian ordinals (datetime.toordinal); a date     *)
(* string 'YYYYMMDD' is the number its digits spell.  Korean string        *)
(* literals of the source are written in ASCII.  A return is a number of   *)
(* hundredths of a percent (round(ret, 2) * 100); closes are positive.     *)
(***************************************************************************)
EXTENDS Integers, Sequences, FiniteSets, TLC

VARIABLES
    pc,              \* position of the running call
    today,           \* datetime.now(), as an ordinal
    probes,          \* stock.get_index_ohlcv per day before today: rows, empty, raise
    base_date,       \* self.base_date
    telegram_token,  \* self.telegram_token is set
    chat_id,         \* self.chat_id is set
    all_etfs,        \* get_all_etf_list() with its traded-value column
    etf_list,        \* etf_list after sort_values / head
    df,              \* all_results as a frame
    final_df,        \* the concatenated frame analyze_etfs returns
    files,           \* state of the three exported files
    requests,        \* requests.post calls made
    response,        \* what the notification call met
    result,          \* what run() returned
    trace,           \* the pipeline steps completed, in order
    hist,            \* stock.get_etf_ohlcv_by_date for one ticker: date -> close
    fetch_raises,    \* whether that fetch raises
    returns,         \* calculate_returns' result
    name,            \* a fund name, a sequence of characters
    classification   \* classify_etf's result

vars == <<pc, today, probes, base_date, telegram_token, chat_id, all_etfs,
          etf_list, df, final_df, files, requests, response, result, trace,
          hist, fetch_raises, returns, name, classification>>

----------------------------------------------------------------------------
(* Bounds of the model *)

\* the Monday that starts the week `today` is drawn from (2026-12-28)
FirstDay == 739978
\* most trading days in a drawn price history
MaxHist == 3
\* closes are drawn from 1..MaxPrice
MaxPrice == 3
\* most words in a drawn fund name
MaxWords == 3
\* most funds in a drawn listing
MaxEtfs == 102
\* the strides the closes and volumes of a drawn listing follow
MaxStride == 2
\* most rows in a drawn result frame
MaxRows == 3
\* drawn returns are in -MaxRet..MaxRet
MaxRet == 1

----------------------------------------------------------------------------
(* Values *)

\* Python's None, as a date: no 'YYYYMMDD' string spells 0
None == 0

Min(S) == CHOOSE x \in S : \A y \in S : x <= y
Max(S) == CHOOSE x \in S : \A y \in S : x >= y

----------------------------------------------------------------------------
(* datetime: ordinals, weekday, strftime('%Y%m%d'), strptime *)

IsLeap(y) == (y % 4 = 0) /\ ((y % 100 # 0) \/ (y % 400 = 0))

DaysInMonth(y, m) ==
    IF m = 2 THEN (IF IsLeap(y) THEN 29 ELSE 28)
    ELSE IF m \in {4, 6, 9, 11} THEN 30 ELSE 31

\* days before January 1st of year y
DaysBeforeYear(y) ==
    (y - 1) * 365 + ((y - 1) \div 4) - ((y - 1) \div 100) + ((y - 1) \div 400)

RECURSIVE DaysBeforeMonth(_, _)
DaysBeforeMonth(y, m) ==
    IF m = 1 THEN 0 ELSE DaysBeforeMonth(y, m - 1) + DaysInMonth(y, m - 1)

\* datetime.weekday(): Monday is 0, Sunday is 6
weekday(n) == (n + 6) % 7

\* datetime.strftime('%Y%m%d')
strftime(n) ==
    LET y == CHOOSE yy \in (n \div 366)..((n \div 365) + 1) :
                 DaysBeforeYear(yy) < n /\ n <= DaysBeforeYear(yy + 1)
        k == n - DaysBeforeYear(y)
        m == CHOOSE mm \in 1..12 :
                 DaysBeforeMonth(y, mm) < k
                 /\ k <= DaysBeforeMonth(y, mm) + DaysInMonth(y, mm)
    IN  y * 10000 + m * 100 + (k - DaysBeforeMonth(y, m))

\* datetime.strptime(s, '%Y%m%d') / pd.to_datetime(s)
strptime(s) ==
    LET y == s \div 10000
        m == (s \div 100) % 100
    IN  DaysBeforeYear(y) + DaysBeforeMonth(y, m) + (s % 100)

\* get_date_before_period
get_date_before_period(base, days) == strftime(strptime(base) - days)

----------------------------------------------------------------------------
(* get_last_trading_day / get_previous_trading_day *)

Outcomes == {"rows", "empty", "raise"}

\* range(1, 10) probes at most 9 earlier days
LookBack == 9
\* the date returned when the look-back finds nothing: now - 5 days
FallbackDays == 5

ProbeDays == 1..(1 + LookBack)

\* stock.get_index_ohlcv(date_str, date_str, "1001") on a day before `now`
get_index_ohlcv(now, pr, date_str) == pr[now - strptime(date_str)]

RECURSIVE PreviousFrom(_, _, _, _)
PreviousFrom(now, pr, from_date, i) ==
    IF i > LookBack THEN strftime(now - FallbackDays)
    ELSE LET date_str == strftime(from_date - i)
         IN  IF get_index_ohlcv(now, pr, date_str) = "rows" THEN date_str
             ELSE PreviousFrom(now, pr, from_date, i + 1)

get_previous_trading_day(now, pr, from_date) == PreviousFrom(now, pr, from_date, 1)

\* get_last_trading_day that rests on Saturday and Sunday
get_last_trading_day_weekend(now, pr) ==
    IF weekday(now) \in {5, 6} THEN None
    ELSE LET last_day == IF weekday(now) = 0 THEN now - 3
                         ELSE IF weekday(now) = 6 THEN now - 2
                         ELSE now - 1
             date_str == strftime(last_day)
         IN  IF get_index_ohlcv(now, pr, date_str) = "rows" THEN date_str
             ELSE get_previous_trading_day(now, pr, last_day)

get_last_trading_day(now, pr) ==
    IF weekday(now) \in {0, 6} THEN None
    ELSE LET last_day == IF weekday(now) = 0 THEN now - 3
                         ELSE IF weekday(now) = 6 THEN now - 2
                         ELSE now - 1
             date_str == strftime(last_day)
         IN  IF get_index_ohlcv(now, pr, date_str) = "rows" THEN date_str
             ELSE get_previous_trading_day(now, pr, last_day)

----------------------------------------------------------------------------
(* calculate_returns *)

\* the keys of `periods`, in the dict's order (1 day, 3 days, 1 week, 2 weeks,
\* 1, 3, 6, 12 months, 3 years, 5 years; Korean in the source)
PeriodNames == <<"1d", "3d", "1w", "2w", "1m", "3m", "6m", "12m", "3y", "5y">>

periods ==
    ("1d" :> 1) @@ ("3d" :> 3) @@ ("1w" :> 7) @@ ("2w" :> 14) @@ ("1m" :> 30)
    @@ ("3m" :> 90) @@ ("6m" :> 180) @@ ("12m" :> 365) @@ ("3y" :> 365 * 3)
    @@ ("5y" :> 365 * 5)

\* the history is fetched from 365 * 6 days before the base date
HistoryDays == 2190

\* the marker string of the source ('not listed yet')
NotListed == [kind |-> "NotListed", v |-> 0]
\* a return, in hundredths of a percent
Num(x) == [kind |-> "num", v |-> x]

\* n / d rounded to the nearest integer, halves to the even one (d > 0)
RoundHalfEven(n, d) ==
    LET q == n \div d
        r == n % d
    IN  IF 2 * r < d THEN q
        ELSE IF 2 * r > d THEN q + 1
        ELSE IF q % 2 = 0 THEN q ELSE q + 1

\* round(((base_price - target_price) / target_price) * 100, 2), in hundredths
RoundedReturn(base_price, target_price) ==
    RoundHalfEven((base_price - target_price) * 10000, target_price)

\* stock.get_etf_ohlcv_by_date(start, end, ticker): the rows of h in [start, end]
get_etf_ohlcv_by_date(start, end, h) ==
    LET keep == {d \in DOMAIN h : strptime(start) <= d /\ d <= strptime(end)}
    IN  [d \in keep |-> h[d]]

AllNotListed == [p \in DOMAIN periods |-> NotListed]

\* PeriodReturn without the fallback to the target date itself (< for <=)
PeriodReturnStrict(frame, base, days) ==
    LET listing_date == Min(DOMAIN frame)
        base_dt == strptime(base)
        target_date == base_dt - days
        available_dates == {d \in DOMAIN frame : d < target_date}
    IN  IF target_date < listing_date THEN NotListed
        ELSE IF base_dt \notin DOMAIN frame THEN NotListed
        ELSE IF available_dates = {} THEN NotListed
        ELSE Num(RoundedReturn(frame[base_dt], frame[Max(available_dates)]))

\* the body of the loop over periods.items(), for one period
PeriodReturn(frame, base, days) ==
    LET listing_date == Min(DOMAIN frame)
        base_dt == strptime(base)
        target_date == base_dt - days
        available_dates == {d \in DOMAIN frame : d <= target_date}
    IN  IF target_date < listing_date THEN NotListed
        ELSE IF base_dt \notin DOMAIN frame THEN NotListed  \* KeyError, caught
        ELSE IF available_dates = {} THEN NotListed
        ELSE Num(RoundedReturn(frame[base_dt], frame[Max(available_dates)]))

RECURSIVE PeriodLoop(_, _, _, _)
PeriodLoop(frame, base, i, acc) ==
    IF i > Len(PeriodNames) THEN acc
    ELSE PeriodLoop(frame, base, i + 1,
            (PeriodNames[i] :> PeriodReturn(frame, base, periods[PeriodNames[i]]))
            @@ acc)

\* calculate_returns whose outer handler keeps the dict built so far
calculate_returns_partial(base, raises, h) ==
    IF raises THEN <<>>
    ELSE LET frame == get_etf_ohlcv_by_date(
                          get_date_before_period(base, HistoryDays), base, h)
         IN  IF DOMAIN frame = {} THEN AllNotListed
             ELSE PeriodLoop(frame, base, 1, <<>>)

\* h: the ticker's price history at the source; raises: the fetch raises
calculate_returns(base, raises, h) ==
    IF raises THEN AllNotListed
    ELSE LET frame == get_etf_ohlcv_by_date(
                          get_date_before_period(base, HistoryDays), base, h)
         IN  IF DOMAIN frame = {} THEN AllNotListed
             ELSE PeriodLoop(frame, base, 1, <<>>)

----------------------------------------------------------------------------
(* classify_etf *)
(* A name is its sequence of characters; a Hangul syllable of the source   *)
(* is one character, written {romanized}.  The tag names and values, Korean *)
(* in the source, are: region (domestic, overseas), leverage (none, 2x,    *)
(* 3x, inverse), hedge (n/a, hedged, exposed), dividend (general,          *)
(* dividend, growth) and sector.                                           *)

\* overseas_keywords
overseas_keywords ==
    <<<<"{mi}", "{guk}">>, <<"S", "&", "P">>,
      <<"N", "A", "S", "D", "A", "Q">>, <<"S", "P", "Y">>,
      <<"{na}", "{seu}", "{dak}">>, <<"{jung}", "{guk}">>,
      <<"{il}", "{bon}">>, <<"{yu}", "{reob}">>,
      <<"{geul}", "{ro}", "{beol}">>, <<"M", "S", "C", "I">>,
      <<"{seon}", "{jin}", "{guk}">>, <<"{i}", "{meo}", "{jing}">>,
      <<"{be}", "{teu}", "{nam}">>, <<"{in}", "{do}">>,
      <<"U", "S", "A">>, <<"C", "h", "i", "n", "a">>,
      <<"J", "a", "p", "a", "n">>, <<"E", "u", "r", "o", "p", "e">>>>

\* the four leverage keywords, the multipliers and the inverse keywords
leverage_keywords ==
    <<<<"L", "E", "V", "E", "R", "A", "G", "E">>,
      <<"{re}", "{beo}", "{ri}", "{ji}">>>>
x2_keywords == <<<<"2", "X">>, <<"2", "{bae}">>>>
x3_keywords == <<<<"3", "X">>, <<"3", "{bae}">>>>
inverse_keywords ==
    <<<<"I", "N", "V", "E", "R", "S", "E">>,
      <<"{in}", "{beo}", "{seu}">>, <<"{gob}", "{beo}", "{seu}">>,
      <<"S", "h", "o", "r", "t">>>>

hedge_keywords ==
    <<<<"{hwan}", "{he}", "{ji}">>, <<"(", "H", ")">>,
      <<"H", "e", "d", "g", "e", "d">>>>

dividend_keywords ==
    <<<<"{bae}", "{dang}">>, <<"D", "I", "V">>,
      <<"D", "i", "v", "i", "d", "e", "n", "d">>,
      <<"{go}", "{bae}", "{dang}">>>>
growth_keywords == <<<<"{seong}", "{jang}">>, <<"G", "r", "o", "w", "t", "h">>>>

\* sector_keywords, in the dict's order
sector_keywords == <<
    [sector |-> "semiconductor",
     keywords |->
       <<<<"{ban}", "{do}", "{che}">>, <<"{chib}">>, <<"C", "h", "i", "p">>,
         <<"S", "e", "m", "i">>,
         <<"{pil}", "{ra}", "{del}", "{pi}", "{a}">>, <<"S", "O", "X">>>>],
    [sector |-> "IT/tech",
     keywords |->
       <<<<"I", "T">>, <<"{in}", "{teo}", "{nes}">>, <<"{te}", "{keu}">>,
         <<"T", "e", "c", "h">>,
         <<"T", "e", "c", "h", "n", "o", "l", "o", "g", "y">>,
         <<"I", "n", "t", "e", "r", "n", "e", "t">>,
         <<"{so}", "{peu}", "{teu}", "{we}", "{eo}">>,
         <<"C", "l", "o", "u", "d">>, <<"C", "y", "b", "e", "r">>,
         <<"S", "o", "f", "t", "w", "a", "r", "e">>>>],
    [sector |-> "battery",
     keywords |->
       <<<<"2", "{cha}", "{jeon}", "{ji}">>, <<"{bae}", "{teo}", "{ri}">>,
         <<"B", "a", "t", "t", "e", "r", "y">>,
         <<"{jeon}", "{gi}", "{cha}">>>>],
    [sector |-> "bio",
     keywords |->
       <<<<"{ba}", "{i}", "{o}">>, <<"B", "i", "o">>, <<"{je}", "{yak}">>,
         <<"P", "h", "a", "r", "m", "a">>,
         <<"{hel}", "{seu}", "{ke}", "{eo}">>,
         <<"H", "e", "a", "l", "t", "h", "c", "a", "r", "e">>,
         <<"H", "e", "a", "l", "t", "h">>>>],
    [sector |-> "finance",
     keywords |->
       <<<<"{geum}", "{yung}">>, <<"{eun}", "{haeng}">>,
         <<"B", "a", "n", "k">>, <<"F", "i", "n", "a", "n", "c", "e">>,
         <<"F", "i", "n", "a", "n", "c", "i", "a", "l">>>>],
    [sector |-> "energy",
     keywords |->
       <<<<"{e}", "{neo}", "{ji}">>, <<"E", "n", "e", "r", "g", "y">>,
         <<"{won}", "{yu}">>, <<"O", "i", "l">>, <<"G", "a", "s">>>>],
    [sector |-> "real estate",
     keywords |->
       <<<<"{ri}", "{cheu}">>, <<"R", "E", "I", "T">>,
         <<"{bu}", "{dong}", "{san}">>,
         <<"R", "e", "a", "l", " ", "E", "s", "t", "a", "t", "e">>>>],
    [sector |-> "bond",
     keywords |->
       <<<<"{chae}", "{gwon}">>, <<"B", "o", "n", "d">>,
         <<"{guk}", "{chae}">>, <<"{hoe}", "{sa}", "{chae}">>,
         <<"T", "r", "e", "a", "s", "u", "r", "y">>, <<"T", "L", "T">>>>],
    [sector |-> "commodity",
     keywords |->
       <<<<"{geum}">>, <<"G", "o", "l", "d">>, <<"{eun}">>,
         <<"S", "i", "l", "v", "e", "r">>, <<"{won}", "{ja}", "{jae}">>,
         <<"C", "o", "m", "m", "o", "d", "i", "t", "y">>>>],
    [sector |-> "auto",
     keywords |->
       <<<<"{ja}", "{dong}", "{cha}">>, <<"A", "u", "t", "o">>,
         <<"C", "a", "r">>, <<"M", "o", "b", "i", "l", "i", "t", "y">>,
         <<"V", "e", "h", "i", "c", "l", "e">>>>],
    [sector |-> "index",
     keywords |->
       <<<<"K", "O", "S", "P", "I">>, <<"K", "O", "S", "D", "A", "Q">>,
         <<"K", "R", "X">>, <<"S", "&", "P", "5", "0", "0">>,
         <<"N", "A", "S", "D", "A", "Q", "1", "0", "0">>,
         <<"R", "u", "s", "s", "e", "l", "l">>, <<"D", "o", "w">>,
         <<"Q", "Q", "Q">>>>]
>>


\* keyword in name
Contains(nm, keyword) ==
    \E i \in 0..(Len(nm) - Len(keyword)) :
        \A j \in 1..Len(keyword) : nm[i + j] = keyword[j]

\* any(keyword in name for keyword in keywords)
AnyIn(nm, keywords) == \E k \in 1..Len(keywords) : Contains(nm, keywords[k])

\* the loop over sector_keywords.items(), with its break
RECURSIVE SectorFrom(_, _)
SectorFrom(nm, i) ==
    IF i > Len(sector_keywords) THEN "other"
    ELSE IF AnyIn(nm, sector_keywords[i].keywords) THEN sector_keywords[i].sector
    ELSE SectorFrom(nm, i + 1)

\* classify_etf with the hedge keywords read for domestic funds too
classify_etf_hedge_first(nm, code) ==
    LET region == IF AnyIn(nm, overseas_keywords) THEN "overseas" ELSE "domestic"
    IN  [region |-> region,
         leverage |->
             IF AnyIn(nm, leverage_keywords)
             THEN (IF AnyIn(nm, x2_keywords) THEN "2x"
                   ELSE IF AnyIn(nm, x3_keywords) THEN "3x"
                   ELSE "2x")
             ELSE IF AnyIn(nm, inverse_keywords) THEN "inverse"
             ELSE "none",
         hedge |->
             IF AnyIn(nm, hedge_keywords) THEN "hedged"
             ELSE IF region = "overseas" THEN "exposed"
             ELSE "n/a",
         dividend |->
             IF AnyIn(nm, dividend_keywords) THEN "dividend"
             ELSE IF AnyIn(nm, growth_keywords) THEN "growth"
             ELSE "general",
         sector |-> SectorFrom(nm, 1)]

classify_etf(nm, code) ==
    LET region == IF AnyIn(nm, overseas_keywords) THEN "overseas" ELSE "domestic"
    IN  [region |-> region,
         leverage |->
             IF AnyIn(nm, leverage_keywords)
             THEN (IF AnyIn(nm, x2_keywords) THEN "2x"
                   ELSE IF AnyIn(nm, x3_keywords) THEN "3x"
                   ELSE "2x")
             ELSE IF AnyIn(nm, inverse_keywords) THEN "inverse"
             ELSE "none",
         hedge |->
             IF region = "overseas"
             THEN (IF AnyIn(nm, hedge_keywords) THEN "hedged" ELSE "exposed")
             ELSE "n/a",
         dividend |->
             IF AnyIn(nm, dividend_keywords) THEN "dividend"
             ELSE IF AnyIn(nm, growth_keywords) THEN "growth"
             ELSE "general",
         sector |-> SectorFrom(nm, 1)]

----------------------------------------------------------------------------
(* analyze_etfs: the frames *)
(* A row of get_all_etf_list() is [code, name, close]; volume, nav_fetch,   *)
(* hist and hist_raises are what the data source holds for the ticker: the  *)
(* day's volume, how the second fetch of the day's row (get_etf_nav) ends,  *)
(* the price history and whether fetching it raises.                        *)

\* head(100): the funds kept after the traded-value sort
TopN == 100
\* head(50) / tail(50) of the funds with a 12-month return
SplitN == 50
\* market_cap = price * volume / 100000
NavUnit == 100000

\* get_etf_nav, in units of 1 / NavUnit
get_etf_nav(row) ==
    IF row.nav_fetch = "rows" THEN row.close * row.volume ELSE 0

\* the place of index i when the keys are put in non-increasing order; equal
\* keys keep their order (tie = "stable") or swap it (tie = "reversed")
PlaceDescending(keys, i, tie) ==
    1 + Cardinality({j \in 1..Len(keys) :
            \/ keys[j] > keys[i]
            \/ (keys[j] = keys[i] /\ IF tie = "stable" THEN j < i ELSE j > i)})

\* sort_values(ascending=True): the least key first
ArgSortAscending(keys, tie) ==
    LET n == Len(keys)
        place == SubSeq([i \in 1..n |-> PlaceDescending(keys, i, tie)], 1, n)
    IN  SubSeq([k \in 1..n |-> CHOOSE i \in 1..n : place[i] = n + 1 - k], 1, n)

\* the order of sort_values(ascending=False): the indices of the keys, the
\* greatest key first.  The default sort is not stable: `tie` is the order it
\* leaves equal keys in.
ArgSortDescending(keys, tie) ==
    LET n == Len(keys)
        place == SubSeq([i \in 1..n |-> PlaceDescending(keys, i, tie)], 1, n)
    IN  SubSeq([k \in 1..n |-> CHOOSE i \in 1..n : place[i] = k], 1, n)

Ties == {"stable", "reversed"}

head(rows, n) == SubSeq(rows, 1, IF Len(rows) < n THEN Len(rows) ELSE n)
tail(rows, n) == SubSeq(rows, IF Len(rows) < n THEN 1 ELSE Len(rows) - n + 1, Len(rows))

\* lines 284-289: the traded-value column, the sort, the rank column, head(100)
select_top(rows, tie) ==
    LET nav == [i \in 1..Len(rows) |-> get_etf_nav(rows[i])]
        order == ArgSortDescending(nav, tie)
        ranked == [k \in 1..Len(rows) |->
                     [code |-> rows[order[k]].code,
                      name |-> rows[order[k]].name,
                      close |-> rows[order[k]].close,
                      volume |-> rows[order[k]].volume,
                      nav_fetch |-> rows[order[k]].nav_fetch,
                      hist |-> rows[order[k]].hist,
                      hist_raises |-> rows[order[k]].hist_raises,
                      nav |-> nav[order[k]],
                      nav_rank |-> k]]
    IN  head(ranked, TopN)

\* lines 293-319: one result row per selected fund
compute_results(rows, base) ==
    [i \in 1..Len(rows) |->
        [name |-> rows[i].name,
         code |-> rows[i].code,
         nav_rank |-> rows[i].nav_rank,
         nav_eok |-> RoundHalfEven(rows[i].nav, NavUnit),
         tags |-> classify_etf(rows[i].name, rows[i].code),
         ret |-> calculate_returns(base, rows[i].hist_raises, rows[i].hist)]]

\* Series.rank(ascending=True, method='min')
RankMinAscending(rows, p, i) ==
    1 + Cardinality({j \in 1..Len(rows) :
                        /\ rows[j].ret[p] # NotListed
                        /\ rows[j].ret[p].v < rows[i].ret[p].v})

\* Series.rank(ascending=False, method='min') of row i among the rows with a
\* number in the column
RankMin(rows, p, i) ==
    1 + Cardinality({j \in 1..Len(rows) :
                        /\ rows[j].ret[p] # NotListed
                        /\ rows[j].ret[p].v > rows[i].ret[p].v})

\* lines 322-330: the rank column of every window
rank_periods(rows) ==
    [i \in 1..Len(rows) |->
        [name |-> rows[i].name,
         code |-> rows[i].code,
         nav_rank |-> rows[i].nav_rank,
         nav_eok |-> rows[i].nav_eok,
         tags |-> rows[i].tags,
         ret |-> rows[i].ret,
         rank |-> [p \in DOMAIN periods |->
                     IF rows[i].ret[p] # NotListed THEN Num(RankMin(rows, p, i))
                     ELSE NotListed]]]

Labelled(rows, label) ==
    [i \in 1..Len(rows) |->
        [name |-> rows[i].name,
         code |-> rows[i].code,
         nav_rank |-> rows[i].nav_rank,
         nav_eok |-> rows[i].nav_eok,
         tags |-> rows[i].tags,
         label |-> label,
         ret |-> rows[i].ret,
         rank |-> rows[i].rank]]

\* lines 333-347: top 50, bottom 50 and the funds with no 12-month return
split_top_bottom(rows, tie) ==
    LET df_valid == SelectSeq(rows, LAMBDA r : r.ret["12m"] # NotListed)
        df_invalid == SelectSeq(rows, LAMBDA r : r.ret["12m"] = NotListed)
        keys == [i \in 1..Len(df_valid) |-> df_valid[i].ret["12m"].v]
        order == ArgSortDescending(keys, tie)
        sorted == [k \in 1..Len(df_valid) |-> df_valid[order[k]]]
    IN  Labelled(head(sorted, SplitN), "top 50")
        \o Labelled(tail(sorted, SplitN), "bottom 50")
        \o Labelled(df_invalid, "not listed (1y)")

----------------------------------------------------------------------------
(* Specifications *)

dayVars == <<today, probes>>
runVars == <<telegram_token, chat_id, files, requests, response, result, trace>>
frameVars == <<all_etfs, etf_list, df, final_df>>
retVars == <<hist, fetch_raises, returns>>
clsVars == <<name, classification>>

Week == FirstDay..(FirstDay + 6)

\* the base date of the drawn histories and frames
HistBase == FirstDay + 4

IdleDay == today = FirstDay /\ probes = [d \in ProbeDays |-> "rows"]
Pending == [kind |-> "pending", rows |-> <<>>]
NoFiles == [f \in {"json", "excel", "md"} |-> "absent"]
IdleRun ==
    /\ telegram_token = FALSE /\ chat_id = FALSE /\ files = NoFiles
    /\ requests = 0 /\ response = "none" /\ result = Pending /\ trace = <<>>
IdleFrames == all_etfs = <<>> /\ etf_list = <<>> /\ df = <<>> /\ final_df = <<>>
IdleReturns == hist = <<>> /\ fetch_raises = FALSE /\ returns = <<>>
IdleClassify == name = <<>> /\ classification = <<>>

(* run(): the pipeline, one action per step *)

\* the steps of analyze_etfs, in the order of its body
analyze_steps ==
    <<"get_last_trading_day", "get_all_etf_list", "select", "compute", "rank",
      "split">>

\* run() with the spreadsheet written before the JSON file
run_steps_excel_first ==
    <<"save_to_excel", "save_to_json", "save_to_markdown",
      "generate_telegram_summary", "send_telegram_message">>

\* the steps of run() after analyze_etfs, in the order of its body
run_steps ==
    <<"save_to_json", "save_to_excel", "save_to_markdown",
      "generate_telegram_summary", "send_telegram_message">>

StepOrder == analyze_steps \o run_steps

\* the step that follows `step`; run() returns after the last
After(step) ==
    LET i == CHOOSE k \in 1..Len(StepOrder) : StepOrder[k] = step
    IN  IF i = Len(StepOrder) THEN "done" ELSE StepOrder[i + 1]

NoneResult == [kind |-> "None", rows |-> <<>>]
Frame(rows) == [kind |-> "frame", rows |-> rows]

\* line 271-277: self.base_date = self.get_last_trading_day()
GetLastTradingDay ==
    /\ pc = "get_last_trading_day"
    /\ base_date' = get_last_trading_day(today, probes)
    /\ trace' = Append(trace, "get_last_trading_day")
    /\ IF base_date' = None
       THEN pc' = "done" /\ result' = NoneResult
       ELSE pc' = After("get_last_trading_day") /\ result' = result
    /\ UNCHANGED <<dayVars, telegram_token, chat_id, files, requests, response,
                   frameVars, retVars, clsVars>>

\* the funds the data source may list on the base date
Catalog == <<
    [code |-> 1,
     name |-> <<"K", "O", "D", "E", "X", " ", "{ban}", "{do}", "{che}">>,
     close |-> 3, volume |-> 2, nav_fetch |-> "rows",
     hist |-> [d \in (FirstDay - 12)..(FirstDay + 6) \cup {FirstDay - 400}
                  |-> 1 + (d % 3)],
     hist_raises |-> FALSE],
    [code |-> 2,
     name |-> <<"{mi}", "{guk}", " ", "S", "&", "P", "5", "0", "0", "(", "H", ")">>,
     close |-> 2, volume |-> 5, nav_fetch |-> "raise",
     hist |-> [d \in (FirstDay - 3)..(FirstDay + 6) |-> 1 + (d % 2)],
     hist_raises |-> FALSE],
    [code |-> 3,
     name |-> <<"K", "O", "D", "E", "X", " ", "{re}", "{beo}", "{ri}", "{ji}">>,
     close |-> 1, volume |-> 6, nav_fetch |-> "rows",
     hist |-> [d \in (FirstDay - 500)..(FirstDay - 490) \cup
                     (FirstDay - 8)..(FirstDay + 6) |-> 2 + (d % 2)],
     hist_raises |-> FALSE],
    [code |-> 4,
     name |-> <<"{geum}", "{yung}", " ", "{go}", "{bae}", "{dang}">>,
     close |-> 6, volume |-> 1, nav_fetch |-> "rows",
     hist |-> <<>>,
     hist_raises |-> TRUE]
>>

\* the listings get_all_etf_list may return: the catalog funds with a row on
\* the base date, in ticker order
Listings ==
    {SelectSeq(Catalog, LAMBDA f : f.code \in S) : S \in SUBSET (1..Len(Catalog))}

\* line 280: etf_list = self.get_all_etf_list() (a failure gives the empty frame)
GetAllEtfList ==
    /\ pc = "get_all_etf_list"
    /\ \E listing \in Listings : all_etfs' = listing
    /\ trace' = Append(trace, "get_all_etf_list")
    /\ pc' = After("get_all_etf_list")
    /\ UNCHANGED <<base_date, dayVars, telegram_token, chat_id, files, requests,
                   response, result, etf_list, df, final_df, retVars, clsVars>>

\* lines 284-289; the frame of no fund has no column to select: KeyError
Select ==
    /\ pc = "select"
    /\ trace' = Append(trace, "select")
    /\ IF all_etfs = <<>>
       THEN pc' = "raised" /\ etf_list' = etf_list
       ELSE /\ \E tie \in Ties : etf_list' = select_top(all_etfs, tie)
            /\ pc' = After("select")
    /\ UNCHANGED <<base_date, dayVars, telegram_token, chat_id, files, requests,
                   response, result, all_etfs, df, final_df, retVars, clsVars>>

\* lines 293-319
Compute ==
    /\ pc = "compute"
    /\ df' = compute_results(etf_list, base_date)
    /\ trace' = Append(trace, "compute")
    /\ pc' = After("compute")
    /\ UNCHANGED <<base_date, dayVars, telegram_token, chat_id, files, requests,
                   response, result, all_etfs, etf_list, final_df, retVars, clsVars>>

\* lines 322-330
Rank ==
    /\ pc = "rank"
    /\ df' = rank_periods(df)
    /\ trace' = Append(trace, "rank")
    /\ pc' = After("rank")
    /\ UNCHANGED <<base_date, dayVars, telegram_token, chat_id, files, requests,
                   response, result, all_etfs, etf_list, final_df, retVars, clsVars>>

\* lines 333-360
Split ==
    /\ pc = "split"
    /\ \E tie \in Ties : final_df' = split_top_bottom(df, tie)
    /\ trace' = Append(trace, "split")
    /\ pc' = After("split")
    /\ UNCHANGED <<base_date, dayVars, telegram_token, chat_id, files, requests,
                   response, result, all_etfs, etf_list, df, retVars, clsVars>>

\* how writing a file may end: written, or an error that leaves a partial file
\* or none
Written == {"written", "partial", "absent"}

\* line 563: json_file = self.save_to_json(df); an error ends run()
SaveToJson ==
    /\ pc = "save_to_json"
    /\ \E io \in Written :
          /\ files' = [files EXCEPT !["json"] = io]
          /\ pc' = IF io = "written" THEN After("save_to_json") ELSE "raised"
    /\ trace' = Append(trace, "save_to_json")
    /\ UNCHANGED <<base_date, dayVars, telegram_token, chat_id, requests, response,
                   result, frameVars, retVars, clsVars>>

\* line 564: excel_file = self.save_to_excel(df)
SaveToExcel ==
    /\ pc = "save_to_excel"
    /\ \E io \in Written :
          /\ files' = [files EXCEPT !["excel"] = io]
          /\ pc' = IF io = "written" THEN After("save_to_excel") ELSE "raised"
    /\ trace' = Append(trace, "save_to_excel")
    /\ UNCHANGED <<base_date, dayVars, telegram_token, chat_id, requests, response,
                   result, frameVars, retVars, clsVars>>

\* line 565: md_file = self.save_to_markdown(df)
SaveToMarkdown ==
    /\ pc = "save_to_markdown"
    /\ \E io \in Written :
          /\ files' = [files EXCEPT !["md"] = io]
          /\ pc' = IF io = "written" THEN After("save_to_markdown") ELSE "raised"
    /\ trace' = Append(trace, "save_to_markdown")
    /\ UNCHANGED <<base_date, dayVars, telegram_token, chat_id, requests, response,
                   result, frameVars, retVars, clsVars>>

\* line 569: the digest text is built from the frame
GenerateTelegramSummary ==
    /\ pc = "generate_telegram_summary"
    /\ trace' = Append(trace, "generate_telegram_summary")
    /\ pc' = After("generate_telegram_summary")
    /\ UNCHANGED <<base_date, dayVars, telegram_token, chat_id, files, requests,
                   response, result, frameVars, retVars, clsVars>>

\* what requests.post may meet
Network == {"200", "500", "raise"}

\* send_telegram_message without its try / except
send_telegram_message_no_except(token, chat, net) ==
    IF ~token \/ ~chat
    THEN [posts |-> 0, response |-> "skipped", raises |-> FALSE]
    ELSE [posts |-> 1, response |-> net, raises |-> net = "raise"]

\* send_telegram_message: the requests made, what came back, whether it raises
send_telegram_message(token, chat, net) ==
    IF ~token \/ ~chat
    THEN [posts |-> 0, response |-> "skipped", raises |-> FALSE]
    ELSE [posts |-> 1, response |-> net, raises |-> FALSE]

\* lines 570-580: the notification, then run() returns the frame
SendTelegramMessage ==
    /\ pc = "send_telegram_message"
    /\ \E net \in Network :
          LET sent == send_telegram_message(telegram_token, chat_id, net)
          IN  /\ requests' = requests + sent.posts
              /\ response' = sent.response
              /\ IF sent.raises
                 THEN pc' = "raised" /\ result' = result
                 ELSE pc' = After("send_telegram_message")
                      /\ result' = Frame(final_df)
    /\ trace' = Append(trace, "send_telegram_message")
    /\ UNCHANGED <<base_date, dayVars, telegram_token, chat_id, files, frameVars,
                   retVars, clsVars>>

\* the probe results the pipeline is run under
ProbePatterns ==
    {[d \in ProbeDays |-> "rows"],
     [d \in ProbeDays |-> IF d <= 3 THEN "empty" ELSE "rows"],
     [d \in ProbeDays |-> "raise"]}

Init ==
    /\ pc = "get_last_trading_day"
    /\ today \in Week
    /\ probes \in ProbePatterns
    /\ telegram_token \in BOOLEAN
    /\ chat_id \in BOOLEAN
    /\ base_date = None
    /\ files = NoFiles /\ requests = 0 /\ response = "none"
    /\ result = Pending /\ trace = <<>>
    /\ IdleFrames /\ IdleReturns /\ IdleClassify

Next ==
    \/ GetLastTradingDay
    \/ GetAllEtfList
    \/ Select
    \/ Compute
    \/ Rank
    \/ Split
    \/ SaveToJson
    \/ SaveToExcel
    \/ SaveToMarkdown
    \/ GenerateTelegramSummary
    \/ SendTelegramMessage

Spec == Init /\ [][Next]_vars

(* get_last_trading_day over every pattern of probe results *)

InitDay ==
    /\ pc = "get_last_trading_day"
    /\ today \in Week
    /\ probes \in [ProbeDays -> Outcomes]
    /\ base_date = None
    /\ IdleRun /\ IdleFrames /\ IdleReturns /\ IdleClassify

NextDay == GetLastTradingDay

SpecDay == InitDay /\ [][NextDay]_vars

(* the traded-value selection over drawn listings *)

\* fund i of a drawn listing: its close and volume follow the stride, its second
\* fetch ends as the outage pattern says
DrawnFund(i, stride, outage) ==
    [code |-> i, name |-> <<>>,
     close |-> 1 + ((stride * i) % 7),
     volume |-> (i * i + stride) % 5,
     nav_fetch |-> IF outage = 1 /\ i % 3 = 0 THEN "empty"
                   ELSE IF outage = 2 /\ i % 64 = 0 THEN "raise"
                   ELSE "rows",
     hist |-> <<>>, hist_raises |-> FALSE]

InitSelect ==
    /\ pc = "select"
    /\ \E n \in 0..MaxEtfs, stride \in 1..MaxStride, outage \in 0..2 :
          all_etfs = [i \in 1..n |-> DrawnFund(i, stride, outage)]
    /\ etf_list = <<>> /\ df = <<>> /\ final_df = <<>>
    /\ base_date = strftime(HistBase)
    /\ IdleDay /\ IdleRun /\ IdleReturns /\ IdleClassify

NextSelect == Select

SpecSelect == InitSelect /\ [][NextSelect]_vars

(* ranking and split over drawn result rows *)

\* the windows a drawn fund has a return for: none, up to 6 months, up to 12
\* months, all
ListedWindows == {0, 7, 8, 10}

\* a result row whose first `listed` windows hold v and -v in turn
DrawnRow(i, v, listed) ==
    [name |-> <<>>, code |-> i, nav_rank |-> i, nav_eok |-> 0,
     tags |-> classify_etf(<<>>, i),
     ret |-> [p \in DOMAIN periods |->
                LET k == CHOOSE j \in 1..Len(PeriodNames) : PeriodNames[j] = p
                IN  IF k > listed THEN NotListed
                    ELSE IF k % 2 = 0 THEN Num(v) ELSE Num(-v)]]

InitRank ==
    /\ pc = "rank"
    /\ \E n \in 1..MaxRows :
          \E vs \in [1..n -> (-MaxRet)..MaxRet], ls \in [1..n -> ListedWindows] :
              df = [i \in 1..n |-> DrawnRow(i, vs[i], ls[i])]
    /\ all_etfs = <<>> /\ etf_list = <<>> /\ final_df = <<>>
    /\ base_date = strftime(HistBase)
    /\ IdleDay /\ IdleRun /\ IdleReturns /\ IdleClassify

NextRank ==
    \/ Rank
    \/ Split

SpecRank == InitRank /\ [][NextRank]_vars

(* calculate_returns over drawn price histories *)

\* days before the base date on which a drawn history may have a close
Offsets == {0, 1, 3, 7, 8, 30, 90, 365, 366, 1095, 1825, 1826, 2190, 2191}

Prices == 1..MaxPrice

Histories ==
    UNION {[{HistBase - o : o \in S} -> Prices] :
             S \in {T \in SUBSET Offsets : Cardinality(T) <= MaxHist}}

InitReturns ==
    /\ pc = "start"
    /\ base_date = strftime(HistBase)
    /\ hist \in Histories
    /\ fetch_raises = FALSE
    /\ returns = <<>>
    /\ IdleDay /\ IdleRun /\ IdleFrames /\ IdleClassify

CalculateReturns ==
    /\ pc = "start"
    /\ \E raises \in BOOLEAN :
          /\ fetch_raises' = raises
          /\ returns' = calculate_returns(base_date, raises, hist)
    /\ pc' = "done"
    /\ UNCHANGED <<base_date, hist, dayVars, runVars, frameVars, clsVars>>

NextReturns == CalculateReturns

SpecReturns == InitReturns /\ [][NextReturns]_vars

(* classify_etf over drawn names *)

\* the words drawn fund names are made of
Vocabulary ==
    {<<"K", "O", "D", "E", "X">>, <<"{mi}", "{guk}">>,
      <<"S", "&", "P", "5", "0", "0">>, <<"C", "h", "i", "n", "a">>,
      <<"{re}", "{beo}", "{ri}", "{ji}">>,
      <<"L", "E", "V", "E", "R", "A", "G", "E">>, <<"2", "{bae}">>,
      <<"3", "X">>, <<"{in}", "{beo}", "{seu}">>,
      <<"S", "h", "o", "r", "t">>, <<"(", "H", ")">>,
      <<"{hwan}", "{he}", "{ji}">>, <<"H", "e", "d", "g", "e", "d">>,
      <<"{go}", "{bae}", "{dang}">>,
      <<"D", "i", "v", "i", "d", "e", "n", "d">>,
      <<"{seong}", "{jang}">>, <<"{ban}", "{do}", "{che}">>,
      <<"R", "E", "I", "T">>, <<"{geum}", "{yung}">>,
      <<"{eun}", "{haeng}">>}

RECURSIVE Join(_)
Join(ws) ==
    IF ws = <<>> THEN <<>>
    ELSE IF Len(ws) = 1 THEN ws[1]
    ELSE ws[1] \o <<" ">> \o Join(Tail(ws))

Names == {Join(ws) : ws \in UNION {[1..k -> Vocabulary] : k \in 0..MaxWords}}

InitClassify ==
    /\ pc = "start"
    /\ name \in Names
    /\ classification = <<>>
    /\ base_date = None
    /\ IdleDay /\ IdleRun /\ IdleFrames /\ IdleReturns

Classify ==
    /\ pc = "start"
    /\ classification' = classify_etf(name, 0)
    /\ pc' = "done"
    /\ UNCHANGED <<name, base_date, dayVars, runVars, frameVars, retVars>>

NextClassify == Classify

SpecClassify == InitClassify /\ [][NextClassify]_vars

----------------------------------------------------------------------------
(* Properties *)

Abs(x) == IF x < 0 THEN -x ELSE x

\* C3: on a working day, the date get_last_trading_day returns is strictly
\* earlier than today, its probe returned rows, and no later day before today
\* has a probe with rows, whatever the probes returned.
C3_LastTradingDay ==
    (pc # "get_last_trading_day" /\ weekday(today) \notin {0, 6}) =>
        LET r == strptime(base_date)
        IN  /\ base_date # None
            /\ r < today
            /\ probes[today - r] = "rows"
            /\ \A d \in (r + 1)..(today - 1) : probes[today - d] # "rows"

\* the rows of hist that the six-year fetch returns
FetchedDates ==
    {d \in DOMAIN hist :
        strptime(base_date) - HistoryDays <= d /\ d <= strptime(base_date)}

\* C5: for a fund with price history, each window's return is
\* (base close - past close) / past close * 100 to the nearest hundredth, past
\* close being the close on the latest date on or before (base date - d); it is
\* the not-listed marker exactly when (base date - d) precedes the first
\* available date or the base date has no close.
C5_PeriodReturns ==
    (pc = "done" /\ ~fetch_raises /\ FetchedDates # {}) =>
        \A p \in DOMAIN periods :
            LET base == strptime(base_date)
                target == base - periods[p]
                r == returns[p]
            IN  /\ (r = NotListed) <=>
                       (target < Min(FetchedDates) \/ base \notin FetchedDates)
                /\ (r # NotListed) =>
                       LET past == Max({d \in FetchedDates : d <= target})
                       IN  /\ r.kind = "num"
                           /\ 2 * Abs(r.v * hist[past]
                                      - 10000 * (hist[base] - hist[past]))
                                  <= hist[past]

\* C5's case: a window whose target date has no close falls back to an earlier
\* date, the quotient needs rounding, and another window is not listed.
C5_Witness ==
    /\ pc = "done" /\ ~fetch_raises
    /\ returns["5y"] = NotListed
    /\ \E p \in DOMAIN periods :
          LET base == strptime(base_date)
              target == base - periods[p]
          IN  /\ returns[p] # NotListed
              /\ target \notin DOMAIN hist
              /\ (10000 * (hist[base] - hist[Max({d \in FetchedDates : d <= target})]))
                     % hist[Max({d \in FetchedDates : d <= target})] # 0

\* C6: on every path calculate_returns' result has exactly the ten window keys,
\* each mapped to a number or to the not-listed marker, so the lookup of the ten
\* keys in analyze_etfs finds each.
C6_TenKeys ==
    (pc = "done") =>
        /\ DOMAIN returns =
               {"1d", "3d", "1w", "2w", "1m", "3m", "6m", "12m", "3y", "5y"}
        /\ \A k \in DOMAIN returns : returns[k].kind \in {"num", "NotListed"}

\* C6's case: the history fetch raised.
C6_Witness ==
    /\ pc = "done" /\ fetch_raises /\ DOMAIN hist # {}
    /\ \A k \in {"1d", "3d", "1w", "2w", "1m", "3m", "6m", "12m", "3y", "5y"} :
          returns[k] = NotListed

\* C9: classify_etf returns exactly the five tags, each with a value of its
\* documented set; the hedge tag is n/a if and only if the fund is domestic, and
\* an overseas fund is hedged exactly when its name holds a hedge keyword.
C9_Classification ==
    (pc = "done") =>
        /\ DOMAIN classification =
               {"sector", "region", "leverage", "hedge", "dividend"}
        /\ classification.sector \in
               {"semiconductor", "IT/tech", "battery", "bio", "finance", "energy",
                "real estate", "bond", "commodity", "auto", "index", "other"}
        /\ classification.region \in {"domestic", "overseas"}
        /\ classification.leverage \in {"none", "2x", "3x", "inverse"}
        /\ classification.hedge \in {"n/a", "hedged", "exposed"}
        /\ classification.dividend \in {"general", "dividend", "growth"}
        /\ (classification.hedge = "n/a") <=> (classification.region = "domestic")
        /\ (classification.region = "overseas") =>
               ((classification.hedge = "hedged") <=> AnyIn(name, hedge_keywords))

\* C9's case: a domestic fund whose name holds a hedge keyword was classified.
C9_Witness ==
    /\ pc = "done"
    /\ AnyIn(name, hedge_keywords)
    /\ classification.region = "domestic"
    /\ classification.hedge = "n/a"

Range(seq) == {seq[i] : i \in 1..Len(seq)}

\* C1: the steps of run() occur in one fixed order, at most once each: the
\* analysis before any export, the exports in the order JSON, spreadsheet, text
\* summary, the notification only after the three exports have completed; no
\* step is taken before its predecessor has finished.
C1_PipelineOrder ==
    LET order == <<"get_last_trading_day", "get_all_etf_list", "select",
                   "compute", "rank", "split", "save_to_json", "save_to_excel",
                   "save_to_markdown", "generate_telegram_summary",
                   "send_telegram_message">>
    IN  /\ Len(trace) <= Len(order)
        /\ \A i \in 1..Len(trace) : trace[i] = order[i]
        /\ "save_to_json" \in Range(trace) => Len(final_df) > 0
        /\ "save_to_excel" \in Range(trace) => files["json"] = "written"
        /\ "save_to_markdown" \in Range(trace) => files["excel"] = "written"
        /\ "send_telegram_message" \in Range(trace) =>
               \A f \in DOMAIN files : files[f] = "written"
        /\ (pc = "raised" \/ pc = "done") \/ Len(trace) < Len(order)

\* C1's case: a run went through every step, the notification included.
C1_Witness ==
    /\ pc = "done"
    /\ Len(trace) = 11
    /\ requests = 1

\* C2: on a Monday or a Sunday get_last_trading_day returns no date,
\* analyze_etfs no result, and run() ends with no file written and no
\* notification attempted; on every other weekday run() goes on to the fetch.
C2_RestDays ==
    (pc # "get_last_trading_day") =>
        IF weekday(today) \in {0, 6}
        THEN /\ base_date = None
             /\ result = NoneResult
             /\ pc = "done"
             /\ files = NoFiles
             /\ requests = 0
             /\ trace = <<"get_last_trading_day">>
        ELSE /\ base_date # None
             /\ \/ pc = "get_all_etf_list"
                \/ (Len(trace) >= 2 /\ trace[2] = "get_all_etf_list")

\* C2's case: run() has ended on a Monday.
C2_Witness ==
    /\ pc = "done"
    /\ weekday(today) = 0
    /\ result = NoneResult

\* C10: the notification never undoes or aborts the run: with the token or the
\* chat id missing no request is made, and whether the request is skipped,
\* succeeds, fails or raises, run() returns the analysis result and the three
\* files stay written; at most one request is made.
C10_Notification ==
    /\ requests <= 1
    /\ (~telegram_token \/ ~chat_id) => requests = 0
    /\ "send_telegram_message" \in Range(trace) =>
           /\ pc = "done"
           /\ result = Frame(final_df)
           /\ \A f \in DOMAIN files : files[f] = "written"
           /\ (telegram_token /\ chat_id) <=> requests = 1

\* C10's case: the request raised and run() returned the frame.
C10_Witness ==
    /\ pc = "done"
    /\ response = "raise"
    /\ requests = 1
    /\ result = Frame(final_df)

\* the traded-value proxy of a fetched fund: close * volume, 0 when the day's
\* row is missing or its fetch fails
Proxy(row) == IF row.nav_fetch = "rows" THEN row.close * row.volume ELSE 0

\* C4: at most 100 funds are selected, each selected fund's proxy is at least
\* the proxy of every fetched fund not selected, and the stored traded-value
\* rank is 1..k in order of non-increasing proxy.
C4_TopByTradedValue ==
    (pc = "compute") =>
        LET selected == {etf_list[k].code : k \in 1..Len(etf_list)}
            least == Min({Proxy(etf_list[k]) : k \in 1..Len(etf_list)})
        IN  /\ Len(etf_list) <= 100
            /\ Len(etf_list) >= 1
            /\ \A k \in 1..Len(etf_list) :
                  /\ etf_list[k].nav_rank = k
                  /\ \E i \in 1..Len(all_etfs) :
                        /\ all_etfs[i].code = etf_list[k].code
                        /\ etf_list[k].nav = Proxy(all_etfs[i])
            /\ \A k \in 1..(Len(etf_list) - 1) :
                  Proxy(etf_list[k]) >= Proxy(etf_list[k + 1])
            /\ \A i \in 1..Len(all_etfs) :
                  all_etfs[i].code \notin selected => Proxy(all_etfs[i]) <= least

\* C4's case: more than 100 funds were fetched, 100 were kept, and a fund with
\* a positive proxy and one whose fetch failed were left out.
C4_Witness ==
    /\ pc = "compute"
    /\ Len(all_etfs) > 100
    /\ Len(etf_list) = 100
    /\ \E i, j \in 1..Len(all_etfs) :
          /\ \A k \in 1..Len(etf_list) :
                etf_list[k].code # all_etfs[i].code /\ etf_list[k].code # all_etfs[j].code
          /\ Proxy(all_etfs[i]) > 0
          /\ all_etfs[j].nav_fetch = "raise"

\* C7: for each window a fund with a numeric return has rank 1 + the number of
\* selected funds with a strictly greater return (ties share the smallest rank,
\* the best return has rank 1), its rank is the marker if and only if its return
\* is, and the ranks are those of all selected funds, taken before the split.
C7_Ranks ==
    /\ (pc = "split" \/ pc = "save_to_json") =>
          \A i \in 1..Len(df) : \A p \in DOMAIN periods :
              /\ (df[i].rank[p] = NotListed) <=> (df[i].ret[p] = NotListed)
              /\ (df[i].ret[p] # NotListed) =>
                    df[i].rank[p] =
                        Num(1 + Cardinality({j \in 1..Len(df) :
                                /\ df[j].ret[p].kind = "num"
                                /\ df[j].ret[p].v > df[i].ret[p].v}))
    /\ (pc = "save_to_json") =>
          \A k \in 1..Len(final_df) : \E i \in 1..Len(df) :
              /\ df[i].code = final_df[k].code
              /\ df[i].rank = final_df[k].rank

\* C7's case: two funds tie for rank 1 of a window, a third has rank 3 there
\* and no return, hence no rank, for the 12-month window.
C7_Witness ==
    /\ pc = "split"
    /\ \E a, b, c \in 1..Len(df) :
          /\ a # b
          /\ df[a].rank["2w"] = Num(1) /\ df[b].rank["2w"] = Num(1)
          /\ df[c].rank["2w"] = Num(3)
          /\ df[c].rank["12m"] = NotListed

\* C8: each selected fund appears in exactly one row of the final result and
\* carries exactly one of the three labels, the not-listed label exactly when it
\* has no 12-month return.
C8_SplitPartition ==
    (pc = "save_to_json") =>
        \A i \in 1..Len(df) :
            LET rows == {k \in 1..Len(final_df) : final_df[k].code = df[i].code}
            IN  /\ Cardinality(rows) = 1
                /\ \A k \in rows :
                      /\ final_df[k].label \in
                             {"top 50", "bottom 50", "not listed (1y)"}
                      /\ (final_df[k].label = "not listed (1y)") <=>
                             (df[i].ret["12m"] = NotListed)

====
